---- MODULE Spec2Model ----
(***************************************************************************)
(* A model of the dependency scheduler of the brain's EnhancedOrchestrator *)
(* (src/apps/brain/src/agents/enhanced_orchestrator.py), of the background *)
(* TaskManager (src/libs/task_manager/src/task_manager.py) and of the      *)
(* MergingAgent.                                                           *)
(*                                                                         *)
(* SchedSpec / SchedFairSpec: one call of _execute_tasks_with_parallel on  *)
(* a task list drawn from all graphs over TaskIds.                         *)
(* MgrSpec: a TaskManager under the interleavings of its coroutines that   *)
(* the asyncio event loop allows (a switch happens only at an await);      *)
(* MgrClockSpec: the same with the clock advancing.                        *)
(* MergeSpec: a MergingAgent (src/apps/brain/src/agents/merging_agent.py)  *)
(* that collects two outcomes in any order and merges at any time.         *)
(* OrchSpec: one iteration of orchestrate after its decision: the tasks    *)
(* run on the dependency path or the parallel-groups path, then the merge  *)
(* points are handled.                                                     *)
(***************************************************************************)
EXTENDS Integers, Sequences, FiniteSets, TLC

(***************************************************************************)
(* Bounds of the model.                                                    *)
(***************************************************************************)
\* max_parallel is drawn from 1..MaxParallelBound
MaxParallelBound == 2

\* the task ids a planner decision may use; a dependency on an id whose task
\* is not in the decision is a dependency on a missing id
TaskIds == {"A", "B", "C"}

None == "None"

(***************************************************************************)
(* State of one run of _execute_tasks_with_parallel.                       *)
(***************************************************************************)
VARIABLES
    dependencies,     \* dependencies: Dict[str, Set[str]], keyed like task_map
    max_parallel,     \* self.max_parallel
    executed,         \* executed = set()
    pending,          \* pending = set(task_map.keys())
    batch,            \* the batch handed to asyncio.gather (a list)
    results,          \* per task of the batch: "inflight" or what its coroutine returned
    completed_tests,  \* context["completed_tests"]
    failed_tests,     \* context["failed_tests"]
    spc,              \* where the scheduling call is: "loop", "gather", "returned"
    rounds            \* history: the batches dispatched so far, in order

schedVars == <<dependencies, max_parallel, executed, pending, batch, results,
               completed_tests, failed_tests, spc, rounds>>

(***************************************************************************)
(* State of the TaskManager: a BackgroundTask object lives as long as      *)
(* something refers to it, the registry self.tasks or the _execute_task    *)
(* coroutine that runs it. rec holds the objects, tasks the registry keys. *)
(***************************************************************************)
VARIABLES
    tasks,                \* the keys of self.tasks
    rec,                  \* the BackgroundTask objects, by task id
    running_tasks,        \* self.running_tasks
    max_concurrent_tasks, \* self.max_concurrent_tasks
    shutdown_requested,   \* self._shutdown_requested
    monitor_task,         \* self._monitor_task: "None", "running" or "done"
    tpc,                  \* per task, where its _execute_task coroutine is
    shutdown_pc,          \* where a shutdown() call is: "idle", "awaiting_monitor"
                          \* or "monitor_ended" (the awaited monitor task is done)
    cleanup_runs,         \* per task, how often _cleanup_task has run its handlers
    created,              \* how many tasks create_task has made
    now,                  \* datetime.now().timestamp()
    cancel_result,        \* what the last step, if a cancel_task call, returned
    hist,                 \* per task, what has happened to it (not a field of
                          \* the program): whether create_task found the
                          \* manager at capacity, how its unit of work ended,
                          \* and when its status became terminal
    last_pass,            \* what the last step, if a pass of the monitor loop,
                          \* removed from the registry
    refactored            \* the TaskManager of task_manager_refactored.py run
                          \* on the same calls: its registry and the
                          \* completed_at of its records (their status is
                          \* that of rec)

mgrVars == <<tasks, rec, running_tasks, max_concurrent_tasks, shutdown_requested,
             monitor_task, tpc, shutdown_pc, cleanup_runs, created, now,
             cancel_result, hist, last_pass, refactored>>

(***************************************************************************)
(* State of the MergingAgent, and the outcomes that are there to collect.  *)
(***************************************************************************)
VARIABLES
    outcomes,         \* per outcome id: the agent it comes from and its payload
    collected,        \* the outcomes collect_agent_results has been called with
    agent_results,    \* self.agent_results, a dict: its items in insertion order
    conflicts,        \* self.conflicts
    merged_results,   \* self.merged_results
    merge_outcome     \* how the last merge_results call ended: "none" (no call
                      \* yet), "returned" or "raised"

mergeVars == <<outcomes, collected, agent_results, conflicts, merged_results,
               merge_outcome>>

(***************************************************************************)
(* The decision of one iteration of orchestrate, next to its "tasks".      *)
(***************************************************************************)
VARIABLES
    parallel_groups,  \* decision.get("parallel_groups", [])
    merge_points      \* decision.get("merge_points", [])

orchVars == <<parallel_groups, merge_points>>

(***************************************************************************)
(* The state of the brain service (main.py): the module globals and the    *)
(* run threads /start has launched.                                        *)
(***************************************************************************)
VARIABLES
    brain_running,        \* the global brain_running
    current_thread,       \* the global current_thread: the run it belongs to
    current_session_id,   \* the global current_session_id
    thread,               \* per run: where the thread of run_brain_loop is
    response              \* what the last request returned

brainVars == <<brain_running, current_thread, current_session_id, thread, response>>

\* what a step of the scheduling call, of the TaskManager, of the
\* MergingAgent leaves alone
notSched == <<mgrVars, mergeVars, orchVars, brainVars>>

notMgr == <<schedVars, mergeVars, orchVars, brainVars>>

notMerge == <<schedVars, mgrVars, orchVars, brainVars>>

\* task_map.keys()
TaskMapKeys == DOMAIN dependencies

\* What one _run_agent_task_async coroutine hands back to gather:
\*   "success"   the dict with success True (agent.think/execute returned)
\*   "error"     the dict with success False built in the except branch
\*   "not_found" the dict {"agent", "success": False, "error"} without task_id
\*   "raised"    an exception escaping the coroutine (raised before the try,
\*               e.g. an unhashable "agent" value in `agent_name not in self.agents`)
Outcomes == {"success", "error", "not_found", "raised"}

\* a mutant: the except branch is missing, an agent error escapes the coroutine
RunAgentTaskAsyncNoCatch(t, agentBehaviour) ==
    CASE agentBehaviour = "unhashable_agent" -> "raised"
      [] agentBehaviour = "unknown_agent"    -> "not_found"
      [] agentBehaviour = "agent_raises"     -> "raised"
      [] OTHER                               -> "success"

\* _run_agent_task_async: the value the coroutine produces for a behaviour of
\* the task's agent
RunAgentTaskAsync(t, agentBehaviour) ==
    CASE agentBehaviour = "unhashable_agent" -> "raised"
      [] agentBehaviour = "unknown_agent"    -> "not_found"
      [] agentBehaviour = "agent_raises"     -> "error"
      [] OTHER                               -> "success"

AgentBehaviours == {"agent_ok", "agent_raises", "unknown_agent", "unhashable_agent"}

\* task.get("agent") of the tasks: two of them are for the same agent
TaskAgent == [t \in TaskIds |-> IF t = "C" THEN "FormAgent" ELSE "NavigationAgent"]

\* the dict appended to context["completed_tests"]: its task_id, agent,
\* success and result keys, None for a key the dict does not have
ResultDict(t, outcome) ==
    CASE outcome = "success" ->
             [task_id |-> t, agent |-> TaskAgent[t], success |-> TRUE,
              result |-> "result"]
      [] outcome = "error" ->
             [task_id |-> t, agent |-> TaskAgent[t], success |-> FALSE,
              result |-> None]
      [] OTHER ->
             [task_id |-> None, agent |-> "UnknownAgent", success |-> FALSE,
              result |-> None]

\* the dict appended to context["failed_tests"]
FailedDict(t) == [task_id |-> t, error |-> "exception"]

\* a mutant: only a task without dependencies is ever ready
ReadyTasksNoDeps(pend, exec) == {t \in pend : dependencies[t] = {}}

\* a mutant: readiness ignores the dependencies
ReadyTasksIgnoreDeps(pend, exec) == pend

\* a mutant: a task is ready as soon as one dependency is executed
ReadyTasksAnyDep(pend, exec) ==
    {t \in pend : dependencies[t] = {} \/ dependencies[t] \cap exec # {}}

\* ready_tasks = [task_id for task_id in pending if dependencies[task_id].issubset(executed)]
ReadyTasks(pend, exec) == {t \in pend : dependencies[t] \subseteq exec}

Min(a, b) == IF a < b THEN a ELSE b

\* a mutant: the whole ready list is dispatched
BatchSizeUnbounded(ready) == Cardinality(ready)

\* batch_size = min(len(ready_tasks), self.max_parallel)
BatchSize(ready) == Min(Cardinality(ready), max_parallel)

\* ready_tasks[:batch_size] - ready_tasks lists a set, whose iteration order
\* the code does not fix: any duplicate-free list of batch_size ready tasks
Batches(ready) ==
    {s \in [1..BatchSize(ready) -> ready] :
        \A i, j \in 1..BatchSize(ready) : i # j => s[i] # s[j]}

Range(s) == {s[i] : i \in 1..Len(s)}

\* every graph a decision can carry: the tasks present and, for each, a set
\* of dependency ids (present or not)
Graphs == UNION {[S -> SUBSET TaskIds] : S \in SUBSET TaskIds}

SchedInit ==
    /\ dependencies \in Graphs
    /\ max_parallel \in 1..MaxParallelBound
    /\ executed = {}
    /\ pending = DOMAIN dependencies
    /\ batch = <<>>
    /\ results = <<>>
    /\ completed_tests = <<>>
    /\ failed_tests = <<>>
    /\ spc = "loop"
    /\ rounds = <<>>

\* lines 191-212: a round finds ready tasks and hands a batch to gather
Dispatch ==
    /\ spc = "loop"
    /\ pending # {}
    /\ ReadyTasks(pending, executed) # {}
    /\ \E b \in Batches(ReadyTasks(pending, executed)) :
          /\ batch' = b
          /\ results' = [t \in Range(b) |-> "inflight"]
          /\ rounds' = Append(rounds, b)
    /\ spc' = "gather"
    /\ UNCHANGED <<dependencies, max_parallel, executed, pending,
                   completed_tests, failed_tests>>
    /\ UNCHANGED notSched

\* lines 262-309: one coroutine of the batch finishes
AgentTaskReturns ==
    /\ spc = "gather"
    /\ \E t \in Range(batch), b \in AgentBehaviours :
          /\ results[t] = "inflight"
          /\ results' = [results EXCEPT ![t] = RunAgentTaskAsync(t, b)]
    /\ UNCHANGED <<dependencies, max_parallel, executed, pending, batch,
                   completed_tests, failed_tests, spc, rounds>>
    /\ UNCHANGED notSched

RECURSIVE Routed(_, _, _)
\* the part of the list `which` that the loop over zip(batch, results) appends
Routed(b, res, which) ==
    IF b = <<>> THEN <<>>
    ELSE LET t == Head(b)
             here == IF res[t] = "raised"
                     THEN IF which = "failed" THEN <<FailedDict(t)>> ELSE <<>>
                     ELSE IF which = "completed" THEN <<ResultDict(t, res[t])>> ELSE <<>>
         IN here \o Routed(Tail(b), res, which)

\* a mutant: only a task that returned (did not raise) is marked executed
ExecutedAfterOnlyReturned(exec, b, res) ==
    exec \cup {t \in Range(b) : res[t] # "raised"}

\* line 225: executed.add(task_id), for every task of the batch
ExecutedAfter(exec, b, res) == exec \cup Range(b)

\* a mutant: processed tasks are never removed from pending
PendingAfterKeep(pend, b) == pend

\* line 226: pending.discard(task_id), for every task of the batch
PendingAfter(pend, b) == pend \ Range(b)

\* a mutant: the wait ends with the first coroutine that finishes
GatherDoneFirstCompleted(b, res) == \E t \in Range(b) : res[t] # "inflight"

\* lines 208-212: await asyncio.gather(...) resumes when every coroutine of
\* the batch has finished
GatherDone(b, res) == \A t \in Range(b) : res[t] # "inflight"

\* lines 214-226: gather returned; the results are processed in batch order
ProcessResults ==
    /\ spc = "gather"
    /\ GatherDone(batch, results)
    /\ completed_tests' = completed_tests \o Routed(batch, results, "completed")
    /\ failed_tests' = failed_tests \o Routed(batch, results, "failed")
    /\ executed' = ExecutedAfter(executed, batch, results)
    /\ pending' = PendingAfter(pending, batch)
    /\ batch' = <<>>
    /\ results' = <<>>
    /\ spc' = "loop"
    /\ UNCHANGED <<dependencies, max_parallel, rounds>>
    /\ UNCHANGED notSched

\* lines 199-202: no ready task while tasks are pending: log and break
Stall ==
    /\ spc = "loop"
    /\ pending # {}
    /\ ReadyTasks(pending, executed) = {}
    /\ spc' = "returned"
    /\ UNCHANGED <<dependencies, max_parallel, executed, pending, batch, results,
                   completed_tests, failed_tests, rounds>>
    /\ UNCHANGED notSched

\* line 191: `while pending` ends the loop
Drained ==
    /\ spc = "loop"
    /\ pending = {}
    /\ spc' = "returned"
    /\ UNCHANGED <<dependencies, max_parallel, executed, pending, batch, results,
                   completed_tests, failed_tests, rounds>>
    /\ UNCHANGED notSched

SchedNext == Dispatch \/ AgentTaskReturns \/ ProcessResults \/ Stall \/ Drained

(***************************************************************************)
(* Properties of the scheduling run.                                       *)
(***************************************************************************)
\* the tasks dispatched in rounds 1..n
RECURSIVE DispatchedUpTo(_)
DispatchedUpTo(n) == IF n = 0 THEN {} ELSE DispatchedUpTo(n - 1) \cup Range(rounds[n])

Dispatched == DispatchedUpTo(Len(rounds))

\* how many times task t was handed to gather
DispatchCount(t) ==
    Cardinality({<<i, j>> \in (1..Len(rounds)) \X (1..Cardinality(TaskIds)) :
                    j <= Len(rounds[i]) /\ rounds[i][j] = t})

\* t's execution failed, as far as the context shows it
ExecutionFailed(t) ==
    \/ \E i \in 1..Len(completed_tests) :
          completed_tests[i].task_id = t /\ ~completed_tests[i].success
    \/ \E i \in 1..Len(failed_tests) : failed_tests[i].task_id = t

\* C1 (as claimed): when a task's execution fails, no task that declares it
\* as a dependency is ever dispatched in that scheduling run.
C1_FailedDependencyBlocksDependents ==
    \A t \in Dispatched : \A d \in dependencies[t] : ~ExecutionFailed(d)

\* C2: a task is put into a batch only if all its dependencies are in
\* `executed`, that is were dispatched in a strictly earlier batch; a task
\* and one of its dependencies never share a batch; and in the completed
\* list no task comes before one of its dependencies.
C2_BatchRespectsDependencies ==
    /\ spc = "gather" => \A t \in Range(batch) : dependencies[t] \subseteq executed
    /\ \A i \in 1..Len(rounds) : \A t \in Range(rounds[i]) :
          /\ dependencies[t] \subseteq DispatchedUpTo(i - 1)
          /\ dependencies[t] \cap Range(rounds[i]) = {}
    /\ \A i, j \in 1..Len(completed_tests) :
          (/\ completed_tests[j].task_id # None
           /\ completed_tests[i].task_id \in dependencies[completed_tests[j].task_id])
          => i < j

\* the scenario of the spec: {A: [], B: [], C: [A, B]} with ceiling 2 ends
\* after the rounds {A, B} and {C}, C last in the completed list
C2_Witness ==
    /\ spc = "returned"
    /\ dependencies = [t \in TaskIds |-> IF t = "C" THEN {"A", "B"} ELSE {}]
    /\ max_parallel = 2
    /\ Len(rounds) = 2
    /\ Range(rounds[1]) = {"A", "B"}
    /\ rounds[2] = <<"C">>
    /\ Len(completed_tests) = 3
    /\ completed_tests[3].task_id = "C"

\* the ids reachable from t over n or fewer dependency edges (t excluded
\* unless an edge leads back to it)
RECURSIVE DepsWithin(_, _, _)
DepsWithin(g, t, n) ==
    IF n = 0 \/ t \notin DOMAIN g THEN {}
    ELSE g[t] \cup UNION {DepsWithin(g, d, n - 1) : d \in g[t]}

TransitiveDeps(g, t) == DepsWithin(g, t, Cardinality(DOMAIN g) + 1)

\* the dependencies are acyclic and reference only ids present in the graph
ValidGraph(g) ==
    \A t \in DOMAIN g : g[t] \subseteq DOMAIN g /\ t \notin TransitiveDeps(g, t)

\* the unsatisfiable subset: the tasks that depend, directly or not, on a
\* missing id or on a task of a dependency cycle (or are on a cycle)
Unsatisfiable(g) ==
    {t \in DOMAIN g :
        \E d \in TransitiveDeps(g, t) \cup {t} :
            \/ d \notin DOMAIN g
            \/ d \in TransitiveDeps(g, d)}

\* the number of entries the two lists of the context hold for task t
EntryCount(t) ==
    Cardinality({i \in 1..Len(completed_tests) : completed_tests[i].task_id = t})
    + Cardinality({i \in 1..Len(failed_tests) : failed_tests[i].task_id = t})

\* C6: for an acyclic graph whose dependencies are all present, and every
\* agent call returning, the loop terminates, every task is dispatched
\* exactly once and gets exactly one outcome.
C6_AcyclicGraphDrains ==
    /\ [](\A t \in TaskMapKeys : DispatchCount(t) <= 1 /\ EntryCount(t) <= 1)
    /\ <>(ValidGraph(dependencies) =>
            /\ spc = "returned"
            /\ pending = {}
            /\ \A t \in TaskMapKeys : DispatchCount(t) = 1
            /\ Len(completed_tests) + Len(failed_tests) = Cardinality(TaskMapKeys))

\* a chain A <- B <- C has drained in three rounds
C6_Witness ==
    /\ spc = "returned"
    /\ ValidGraph(dependencies)
    /\ Cardinality(TaskMapKeys) = 3
    /\ Len(rounds) = 3
    /\ pending = {}

IsPrefix(s, t) == Len(s) <= Len(t) /\ \A i \in 1..Len(s) : s[i] = t[i]

\* C7: for a graph with a dependency cycle or a dependency on a missing id
\* the run stops, no task of the unsatisfiable subset is ever dispatched,
\* every task outside it is dispatched and gets its outcome, and outcomes
\* once recorded stay recorded.
C7_UnsatisfiableGraphStops ==
    /\ [](Dispatched \cap Unsatisfiable(dependencies) = {})
    /\ <>(Unsatisfiable(dependencies) # {} =>
            /\ spc = "returned"
            /\ pending = Unsatisfiable(dependencies)
            /\ executed = TaskMapKeys \ Unsatisfiable(dependencies)
            /\ \A t \in executed : DispatchCount(t) = 1
            /\ Len(completed_tests) + Len(failed_tests) = Cardinality(executed))
    /\ [][/\ IsPrefix(completed_tests, completed_tests')
          /\ IsPrefix(failed_tests, failed_tests')]_schedVars

\* a run that stalled on an unsatisfiable subset after recording outcomes
C7_Witness ==
    /\ spc = "returned"
    /\ pending # {}
    /\ pending = Unsatisfiable(dependencies)
    /\ completed_tests # <<>>
    /\ executed # {}

\* the blocked set the run reports: the stall only logs an error and breaks;
\* the context is given no list of blocked tasks
ReportedBlocked == {}

ReportedCompleted ==
    {completed_tests[i].task_id : i \in 1..Len(completed_tests)} \ {None}

ReportedFailed == {failed_tests[i].task_id : i \in 1..Len(failed_tests)}

\* C8 (as claimed): when the run ends every task of the graph is reported in
\* exactly one of completed, failed and blocked; a task never dispatched is
\* reported as blocked.
C8_EveryTaskReported ==
    spc = "returned" =>
        /\ \A t \in TaskMapKeys :
              /\ t \in ReportedCompleted \cup ReportedFailed \cup ReportedBlocked
              /\ ~(t \in ReportedCompleted /\ t \in ReportedFailed)
              /\ ~(t \in ReportedCompleted /\ t \in ReportedBlocked)
              /\ ~(t \in ReportedFailed /\ t \in ReportedBlocked)
        /\ \A t \in TaskMapKeys \ Dispatched : t \in ReportedBlocked

(***************************************************************************)
(* The TaskManager.                                                        *)
(*                                                                         *)
(* A BackgroundTask object lives as long as something refers to it: the    *)
(* registry self.tasks, or the _execute_task coroutine that runs it. rec   *)
(* holds the objects, tasks the keys of the registry.                      *)
(***************************************************************************)
\* create_task is called at most MaxTasks times; the ids are 1..MaxTasks
MaxTasks == 2

\* max_concurrent_tasks is drawn from 1..MaxConcurrentBound
MaxConcurrentBound == 2

\* the clock advances MaxTicks times, by TickSeconds each time
MaxTicks == 1

TickSeconds == 3601

\* line 292: stale_threshold = datetime.now().timestamp() - 3600
StaleSeconds == 3600

MgrIds == 1..MaxTasks

\* TaskStatus
PENDING == "pending"
RUNNING == "running"
COMPLETED == "completed"
FAILED == "failed"
CANCELLED == "cancelled"
TIMEOUT == "timeout"

TerminalStatuses == {COMPLETED, FAILED, CANCELLED, TIMEOUT}

\* cancel_result when the last step was not a cancel_task call
NoCall == [called |-> FALSE, task_id |-> 0, ret |-> FALSE]

\* cancel_result after cancel_task(t) returned ret
Returned(t, ret) == [called |-> TRUE, task_id |-> t, ret |-> ret]

\* completed_at of a task whose execution has not ended (None)
NoTime == 0 - 1

\* an id create_task has not used yet
NoTask ==
    [status |-> None, result |-> None, error |-> None, completed_at |-> NoTime,
     timeout |-> FALSE]

\* lines 93-102: the BackgroundTask create_task builds
NewTask(timeout) ==
    [status |-> PENDING, result |-> None, error |-> None, completed_at |-> NoTime,
     timeout |-> timeout]

\* a mutant: there is no capacity test
AtCapacityNever == FALSE

\* a mutant: the capacity test is off by one
AtCapacityOffByOne == running_tasks > max_concurrent_tasks

\* line 120: self.running_tasks >= self.max_concurrent_tasks
AtCapacity == running_tasks >= max_concurrent_tasks

\* hist of a task nothing has happened to
NoHist == [at_capacity |-> FALSE, coro |-> "none", terminal_at |-> NoTime]

\* hist after a step that took the records from `before` to `after`: a task
\* whose status became terminal in the step is stamped with the time
Stamped(h, before, after) ==
    [t \in MgrIds |->
        IF before[t].status \notin TerminalStatuses /\ after[t].status \in TerminalStatuses
        THEN [h[t] EXCEPT !.terminal_at = now]
        ELSE h[t]]

\* what a call of _cleanup_stale_tasks does: it raises or it removes tasks
Cleanup(raised, removed) == [raised |-> raised, removed |-> removed]

\* last_pass when the last step was not a pass of the monitor loop
NoPass == [ran |-> FALSE, removed |-> {}, refactored |-> Cleanup(FALSE, {})]

\* last_pass after a pass of the monitor loop that removed the tasks S, the
\* pass of the refactored manager having done R
Pass(S, R) == [ran |-> TRUE, removed |-> S, refactored |-> R]

MgrInit ==
    /\ tasks = {}
    /\ rec = [t \in MgrIds |-> NoTask]
    /\ running_tasks = 0
    /\ max_concurrent_tasks \in 1..MaxConcurrentBound
    /\ shutdown_requested = FALSE
    /\ monitor_task = "None"
    /\ tpc = [t \in MgrIds |-> "none"]
    /\ shutdown_pc = "idle"
    /\ cleanup_runs = [t \in MgrIds |-> 0]
    /\ created = 0
    /\ now = 0
    /\ cancel_result = NoCall
    /\ hist = [t \in MgrIds |-> NoHist]
    /\ last_pass = NoPass
    /\ refactored = [tasks |-> {}, completed_at |-> [t \in MgrIds |-> NoTime]]

\* lines 82-110: create_task registers a PENDING task and schedules its
\* _execute_task coroutine; timeout is whether a timeout was given
CreateTask ==
    /\ created < MaxTasks
    /\ \E timeout \in BOOLEAN :
          rec' = [rec EXCEPT ![created + 1] = NewTask(timeout)]
    /\ tasks' = tasks \cup {created + 1}
    /\ tpc' = [tpc EXCEPT ![created + 1] = "start"]
    /\ created' = created + 1
    /\ hist' = [hist EXCEPT ![created + 1].at_capacity = AtCapacity]
    /\ cancel_result' = NoCall
    /\ last_pass' = NoPass
    /\ refactored' = [refactored EXCEPT !.tasks = @ \cup {created + 1}]
    /\ UNCHANGED <<running_tasks, max_concurrent_tasks, shutdown_requested,
                   monitor_task, shutdown_pc, cleanup_runs, now>>
    /\ UNCHANGED notMgr

\* lines 119-129: the first step of _execute_task, under the lock: reject at
\* capacity (and return, past the try/finally), or admit
Admit(t) ==
    /\ tpc[t] = "start"
    /\ IF AtCapacity
       THEN /\ rec' = [rec EXCEPT ![t].status = FAILED,
                                  ![t].error = "Max concurrent tasks reached"]
            /\ tpc' = [tpc EXCEPT ![t] = "done"]
            /\ UNCHANGED running_tasks
       ELSE /\ running_tasks' = running_tasks + 1
            /\ rec' = [rec EXCEPT ![t].status = RUNNING]
            /\ tpc' = [tpc EXCEPT ![t] = "awaiting_coro"]
    /\ cancel_result' = NoCall
    /\ last_pass' = NoPass
    /\ UNCHANGED refactored
    /\ UNCHANGED <<tasks, max_concurrent_tasks, shutdown_requested, monitor_task,
                   shutdown_pc, cleanup_runs, created, now>>
    /\ hist' = Stamped(hist, rec, rec')
    /\ UNCHANGED notMgr

\* how the awaited unit of work ends: it returns, it raises, or (with a
\* timeout) asyncio.wait_for raises TimeoutError
CoroOutcomes(t) ==
    {"returns", "raises"} \cup (IF rec[t].timeout THEN {"TimeoutError"} ELSE {})

\* a mutant: the outcome is applied only to a task that is still RUNNING
AfterCoroIfRunning(r, outcome) ==
    IF r.status # RUNNING THEN r
    ELSE CASE outcome = "returns" -> [r EXCEPT !.result = "result", !.status = COMPLETED]
           [] outcome = "TimeoutError" -> [r EXCEPT !.status = TIMEOUT, !.error = "Task timeout"]
           [] OTHER -> [r EXCEPT !.status = FAILED, !.error = "exception"]

\* a mutant: the result of a unit of work that timed out is recorded
AfterCoroResultOnTimeout(r, outcome) ==
    CASE outcome = "returns" -> [r EXCEPT !.result = "result", !.status = COMPLETED]
      [] outcome = "TimeoutError" ->
             [r EXCEPT !.result = "result", !.status = TIMEOUT, !.error = "Task timeout"]
      [] OTHER -> [r EXCEPT !.status = FAILED, !.error = "exception"]

\* a mutant: the timeout is handled by the generic except branch
AfterCoroTimeoutAsFailure(r, outcome) ==
    CASE outcome = "returns" -> [r EXCEPT !.result = "result", !.status = COMPLETED]
      [] OTHER -> [r EXCEPT !.status = FAILED, !.error = "exception"]

\* lines 131-149: the record after the awaited unit of work has ended
AfterCoro(r, outcome) ==
    CASE outcome = "returns" -> [r EXCEPT !.result = "result", !.status = COMPLETED]
      [] outcome = "TimeoutError" -> [r EXCEPT !.status = TIMEOUT, !.error = "Task timeout"]
      [] OTHER -> [r EXCEPT !.status = FAILED, !.error = "exception"]

\* a mutant: the finally block forgets to release the slot
RunningAfterFinallyLeak == running_tasks

\* lines 152-153: self.running_tasks -= 1
RunningAfterFinally == running_tasks - 1

\* lines 161-173: _cleanup_task(task), for every task of S, calls each
\* cleanup handler of the task once
CleanupRunsAfter(runs, S) ==
    [t \in MgrIds |-> IF t \in S THEN runs[t] + 1 ELSE runs[t]]

\* lines 131-159: the unit of work of an admitted task ends; the except
\* branches and the finally block run without another await
Finish(t) ==
    /\ tpc[t] = "awaiting_coro"
    /\ \E outcome \in CoroOutcomes(t) :
          /\ rec' = [rec EXCEPT ![t] = [AfterCoro(rec[t], outcome)
                                           EXCEPT !.completed_at = now]]
          /\ hist' = Stamped([hist EXCEPT ![t].coro = outcome], rec, rec')
    /\ running_tasks' = RunningAfterFinally
    /\ cleanup_runs' = CleanupRunsAfter(cleanup_runs, {t})
    /\ tpc' = [tpc EXCEPT ![t] = "done"]
    /\ cancel_result' = NoCall
    /\ last_pass' = NoPass
    /\ refactored' = [refactored EXCEPT !.completed_at[t] = now]
    /\ UNCHANGED <<tasks, max_concurrent_tasks, shutdown_requested, monitor_task,
                   shutdown_pc, created, now>>
    /\ UNCHANGED notMgr

\* a mutant: any task that is not CANCELLED yet can be cancelled
CancelRefusedNever(t) == t \notin tasks \/ rec[t].status = CANCELLED

\* a mutant: a PENDING task can be cancelled as well
CancelRefusedUnlessActive(t) == t \notin tasks \/ rec[t].status \notin {PENDING, RUNNING}

\* lines 178-185: cancel_task returns False for an id that is not registered
\* and for a task that is not RUNNING
CancelRefused(t) == t \notin tasks \/ rec[t].status # RUNNING

\* lines 187-188: what cancel_task writes to the task
Cancelled(r) == [r EXCEPT !.status = CANCELLED, !.error = "Task cancelled by user"]

\* lines 175-191: cancel_task(t)
CancelTask(t) ==
    /\ IF CancelRefused(t)
       THEN /\ cancel_result' = Returned(t, FALSE)
            /\ UNCHANGED rec
       ELSE /\ cancel_result' = Returned(t, TRUE)
            /\ rec' = [rec EXCEPT ![t] = Cancelled(rec[t])]
    /\ last_pass' = NoPass
    /\ refactored' = IF CancelRefused(t) THEN refactored
                     ELSE [refactored EXCEPT !.completed_at[t] = now]
    /\ UNCHANGED <<tasks, running_tasks, max_concurrent_tasks, shutdown_requested,
                   monitor_task, tpc, shutdown_pc, cleanup_runs, created, now>>
    /\ hist' = Stamped(hist, rec, rec')
    /\ UNCHANGED notMgr

\* lines 245-253: start_monitoring
StartMonitoring ==
    /\ monitor_task # "running"
    /\ monitor_task' = "running"
    /\ cancel_result' = NoCall
    /\ last_pass' = NoPass
    /\ UNCHANGED refactored
    /\ UNCHANGED <<tasks, rec, running_tasks, max_concurrent_tasks,
                   shutdown_requested, tpc, shutdown_pc, cleanup_runs, created, now>>
    /\ UNCHANGED <<hist, notMgr>>

\* lines 294-300: the ids _cleanup_stale_tasks removes
StaleTasks ==
    {t \in tasks :
        /\ rec[t].status \in {COMPLETED, FAILED, CANCELLED}
        /\ rec[t].completed_at # NoTime
        /\ rec[t].completed_at < now - StaleSeconds}

\* task_manager_refactored.py lines 248-250, the condition of the list
\* comprehension for task t. It parses as
\*   (status in [...] and completed_at and completed_at.timestamp())
\*       if hasattr(completed_at, 'timestamp') else (completed_at < threshold)
\* so a datetime is never compared with the threshold (its timestamp is not
\* 0.0, hence true), and None, which has no timestamp, is compared with a
\* float, which raises TypeError
IsStaleRefactored(t) ==
    IF refactored.completed_at[t] # NoTime
    THEN IF rec[t].status \in {COMPLETED, FAILED, CANCELLED} THEN "stale" ELSE "fresh"
    ELSE "TypeError"

\* task_manager_refactored.py lines 241-258: _cleanup_stale_tasks. The list
\* is built before anything is deleted, so a TypeError leaves the registry
\* as it was
CleanupStaleTasksRefactored ==
    IF \E t \in refactored.tasks : IsStaleRefactored(t) = "TypeError"
    THEN Cleanup(TRUE, {})
    ELSE Cleanup(FALSE, {t \in refactored.tasks : IsStaleRefactored(t) = "stale"})

\* lines 269-287: a turn of the monitor task. With _shutdown_requested set
\* (or cancelled by stop_monitoring, which sets it) the loop ends; otherwise
\* the sleep ends, the resource usage is refreshed and stale tasks are removed
MonitorLoop ==
    /\ monitor_task = "running"
    /\ IF shutdown_requested
       THEN /\ monitor_task' = "done"
            /\ shutdown_pc' = IF shutdown_pc = "awaiting_monitor"
                              THEN "monitor_ended" ELSE shutdown_pc
            /\ last_pass' = NoPass
            /\ UNCHANGED <<tasks, refactored>>
       ELSE /\ tasks' = tasks \ StaleTasks
            /\ refactored' = [refactored EXCEPT !.tasks = @ \ CleanupStaleTasksRefactored.removed]
            /\ last_pass' = Pass(StaleTasks, CleanupStaleTasksRefactored)
            /\ UNCHANGED <<monitor_task, shutdown_pc>>
    /\ cancel_result' = NoCall
    /\ UNCHANGED <<rec, running_tasks, max_concurrent_tasks, shutdown_requested,
                   tpc, cleanup_runs, created, now>>
    /\ UNCHANGED <<hist, notMgr>>

\* lines 312-314: shutdown cancels every RUNNING task of the registry
AfterShutdownCancel ==
    [t \in MgrIds |-> IF t \in tasks /\ rec[t].status = RUNNING
                      THEN Cancelled(rec[t]) ELSE rec[t]]

\* a mutant: shutdown keeps the tasks that have not started yet
RegistryAfterClearKeepsPending == {t \in tasks : rec[t].status = PENDING}

\* line 323: self.tasks.clear()
RegistryAfterClear == {}

\* lines 306-324 and 255-267: shutdown() up to its only await, the one on a
\* monitor task that is still running; without such a task it runs through.
\* Cleanup handlers are taken not to suspend, and one shutdown() runs at a time
ShutdownCall ==
    /\ shutdown_pc = "idle"
    /\ rec' = AfterShutdownCancel
    /\ shutdown_requested' = TRUE
    /\ IF monitor_task = "running"
       THEN /\ shutdown_pc' = "awaiting_monitor"
            /\ UNCHANGED <<tasks, cleanup_runs>>
       ELSE /\ cleanup_runs' = CleanupRunsAfter(cleanup_runs, tasks)
            /\ tasks' = RegistryAfterClear
            /\ UNCHANGED shutdown_pc
    /\ cancel_result' = NoCall
    /\ last_pass' = NoPass
    /\ refactored' = [tasks |-> IF monitor_task = "running" THEN refactored.tasks
                                 ELSE RegistryAfterClear,
                       completed_at |-> [t \in MgrIds |->
                           IF t \in tasks /\ rec[t].status = RUNNING THEN now
                           ELSE refactored.completed_at[t]]]
    /\ UNCHANGED <<running_tasks, max_concurrent_tasks, monitor_task, tpc,
                   created, now>>
    /\ hist' = Stamped(hist, rec, rec')
    /\ UNCHANGED notMgr

\* lines 319-324: the monitor task has ended; shutdown cleans up every
\* registered task and clears the registry
ShutdownResume ==
    /\ shutdown_pc = "monitor_ended"
    /\ cleanup_runs' = CleanupRunsAfter(cleanup_runs, tasks)
    /\ tasks' = RegistryAfterClear
    /\ shutdown_pc' = "idle"
    /\ cancel_result' = NoCall
    /\ last_pass' = NoPass
    /\ refactored' = [refactored EXCEPT !.tasks = RegistryAfterClear]
    /\ UNCHANGED <<rec, running_tasks, max_concurrent_tasks, shutdown_requested,
                   monitor_task, tpc, created, now>>
    /\ UNCHANGED <<hist, notMgr>>

\* time passes
Tick ==
    /\ now < MaxTicks * TickSeconds
    /\ now' = now + TickSeconds
    /\ cancel_result' = NoCall
    /\ last_pass' = NoPass
    /\ UNCHANGED refactored
    /\ UNCHANGED <<tasks, rec, running_tasks, max_concurrent_tasks,
                   shutdown_requested, monitor_task, tpc, shutdown_pc,
                   cleanup_runs, created>>
    /\ UNCHANGED <<hist, notMgr>>

MgrNext ==
    \/ CreateTask
    \/ \E t \in MgrIds : Admit(t)
    \/ \E t \in MgrIds : Finish(t)
    \/ \E t \in MgrIds : CancelTask(t)
    \/ StartMonitoring
    \/ MonitorLoop
    \/ ShutdownCall
    \/ ShutdownResume

\* the TaskManager with the clock running
MgrClockNext == MgrNext \/ Tick

(***************************************************************************)
(* The MergingAgent.                                                       *)
(*                                                                         *)
(* A payload (the results dict of an agent) and merged_data are dicts:     *)
(* functions on AllKeys whose value is Absent for a key the dict does not  *)
(* have. A value carries its Python shape: a list, a dict, or anything     *)
(* else (a scalar).                                                        *)
(***************************************************************************)
\* the agents outcomes are collected from
Agents == {"A", "B"}

\* the keys of the payloads that are there to collect
Keys == {"x", "y"}

\* lines 325-329: the keys of the dict _handle_merge_points collects per test
ContextKeys == {"task_id", "result", "success"}

AllKeys == Keys \cup ContextKeys

\* the keys of a value that is a dict
MapKeys == {"a", "b"}

ScalarValues == {"1", "2"}

OutcomeIds == {1, 2}

\* resolve_conflicts is called at most MaxConflicts times
MaxConflicts == 1

\* a dict value without keys
EmptyMap == [k \in MapKeys |-> None]

\* the key is not in the dict
Absent == [shape |-> "absent", scalar |-> None, list |-> <<>>, map |-> EmptyMap]

Scalar(v) == [shape |-> "scalar", scalar |-> v, list |-> <<>>, map |-> EmptyMap]

List(l) == [shape |-> "list", scalar |-> None, list |-> l, map |-> EmptyMap]

Map(m) == [shape |-> "map", scalar |-> None, list |-> <<>>, map |-> m]

\* what list.extend raises on a value that is not a list (line 112)
AttributeError ==
    [shape |-> "AttributeError", scalar |-> None, list |-> <<>>, map |-> EmptyMap]

\* the values a payload can hold under a key: a scalar, a list of one
\* element, a dict of one key
Values ==
    {Scalar(v) : v \in ScalarValues}
    \cup {List(<<v>>) : v \in ScalarValues}
    \cup {Map([EmptyMap EXCEPT ![k] = v]) : k \in MapKeys, v \in ScalarValues}

\* {}
EmptyDict == [k \in AllKeys |-> Absent]

\* the payloads over Keys
Payloads ==
    {[k \in AllKeys |-> IF k \in Keys THEN f[k] ELSE Absent] :
        f \in [Keys -> Values \cup {Absent}]}

\* the keys of a payload: results.keys()
KeysOf(payload) == {k \in AllKeys : payload[k].shape # "absent"}

\* the order in which `for key, value in results.items()` visits the keys
\* (the insertion order of the payload, taken to be this one)
KeyOrder == <<"x", "y", "task_id", "result", "success">>

\* dict.update
Update(m, n) == [k \in MapKeys |-> IF n[k] # None THEN n[k] ELSE m[k]]

\* lines 49-55: self.agent_results[agent_name] = {...}; a key that is there
\* keeps its place in the dict
CollectAgentResultsInto(ar, agent_name, payload) ==
    IF \E i \in DOMAIN ar : ar[i].agent = agent_name
    THEN [i \in DOMAIN ar |-> IF ar[i].agent = agent_name
                              THEN [agent |-> agent_name, results |-> payload]
                              ELSE ar[i]]
    ELSE Append(ar, [agent |-> agent_name, results |-> payload])

\* a mutant: a scalar is appended to the list line 109 made
MergeValueAppendsScalar(cur, value) ==
    LET c == IF cur.shape = "absent" THEN List(<<>>) ELSE cur
    IN CASE value.shape = "list" ->
                IF c.shape = "list" THEN List(c.list \o value.list)
                ELSE AttributeError
         [] value.shape = "map" ->
                Map(Update(IF c.shape = "map" THEN c.map ELSE EmptyMap, value.map))
         [] OTHER -> IF c.shape = "list" THEN List(Append(c.list, value.scalar))
                     ELSE value

\* a mutant: the first value of a key is kept
MergeValueKeepsFirst(cur, value) ==
    CASE cur.shape # "absent" -> cur
      [] OTHER -> value

\* lines 108-118: merged_data[key] after `value` has been merged into it;
\* cur is merged_data[key] before
MergeValue(cur, value) ==
    LET c == IF cur.shape = "absent" THEN List(<<>>) ELSE cur
    IN CASE value.shape = "list" ->
                IF c.shape = "list" THEN List(c.list \o value.list)
                ELSE AttributeError
         [] value.shape = "map" ->
                Map(Update(IF c.shape = "map" THEN c.map ELSE EmptyMap, value.map))
         [] OTHER -> value

RECURSIVE MergeItems(_, _, _)
\* lines 107-118: the loop over results.items() of a payload, from the i-th
\* key on; md is
\* [data |-> merged_data, raised |-> whether an exception has ended the merge]
MergeItems(md, payload, i) ==
    IF i > Len(KeyOrder) \/ md.raised THEN md
    ELSE LET key == KeyOrder[i]
             v == MergeValue(md.data[key], payload[key])
         IN IF payload[key].shape = "absent" THEN MergeItems(md, payload, i + 1)
            ELSE IF v.shape = "AttributeError" THEN [md EXCEPT !.raised = TRUE]
            ELSE MergeItems([md EXCEPT !.data[key] = v], payload, i + 1)

RECURSIVE MergeAgents(_, _, _)
\* lines 104-118: the loop over self.agent_results.items(), from the i-th on
MergeAgents(md, ar, i) ==
    IF i > Len(ar) \/ md.raised THEN md
    ELSE MergeAgents(MergeItems(md, ar[i].results, 1), ar, i + 1)

\* lines 94-118: what merge_results computes from agent_results
Merged(ar) == MergeAgents([data |-> EmptyDict, raised |-> FALSE], ar, 1)

\* len([c for c in self.conflicts if c["resolution"]])
ConflictsResolved(cs) == Cardinality({i \in DOMAIN cs : cs[i].resolution # None})

\* lines 94-102 and 104-118: self.merged_results after merge_results, which
\* stays as far as the loop got when the loop raises
MergedResults(ar, cs) ==
    [agents_participated |-> [i \in DOMAIN ar |-> ar[i].agent],
     total_agents |-> Len(ar),
     merged_data |-> Merged(ar).data,
     conflicts_resolved |-> ConflictsResolved(cs),
     total_conflicts |-> Len(cs)]

\* MergingAgent.__init__: self.merged_results = {}
NoMergedResults ==
    [agents_participated |-> <<>>, total_agents |-> 0, merged_data |-> EmptyDict,
     conflicts_resolved |-> 0, total_conflicts |-> 0]

\* lines 19-24: the agent as constructed, before anything is there to collect
MergeIdle ==
    /\ outcomes = <<>>
    /\ collected = {}
    /\ agent_results = <<>>
    /\ conflicts = <<>>
    /\ merged_results = NoMergedResults
    /\ merge_outcome = "none"

\* lines 19-24: the agent as constructed, with OutcomeIds outcomes to collect,
\* the first of them from agent A
MergeInit ==
    /\ outcomes \in {o \in [OutcomeIds -> [agent : Agents, results : Payloads]] :
                        o[1].agent = "A"}
    /\ collected = {}
    /\ agent_results = <<>>
    /\ conflicts = <<>>
    /\ merged_results = NoMergedResults
    /\ merge_outcome = "none"

\* lines 49-56: collect_agent_results(agent, results), for an outcome that
\* has not been collected yet
CollectAgentResults ==
    /\ \E o \in OutcomeIds \ collected :
          /\ agent_results' = CollectAgentResultsInto(agent_results, outcomes[o].agent,
                                                      outcomes[o].results)
          /\ collected' = collected \cup {o}
    /\ UNCHANGED <<outcomes, conflicts, merged_results, merge_outcome>>
    /\ UNCHANGED notMerge

\* action.get("conflict_type"): the types a resolve_conflict action names
ConflictTypes == {"value_mismatch", "selector_mismatch"}

\* a conflict without the "resolved_at" key
NotResolvedAt == 0 - 1

\* lines 66-76: the conflict resolve_conflicts appends
Conflict(conflict_type, agent1, agent2) ==
    [conflict_type |-> conflict_type, agents |-> <<agent1, agent2>>,
     resolution |-> None, resolved_by |-> None, resolved_at |-> NotResolvedAt]

\* lines 264-269: every conflict of the type gets the resolution;
\* datetime.now() is the number of the call, the length of the list
Resolved(cs, conflict_type, resolution) ==
    IF resolution = None THEN cs
    ELSE [i \in DOMAIN cs |->
             IF cs[i].conflict_type = conflict_type
             THEN [cs[i] EXCEPT !.resolution = resolution,
                                !.resolved_by = "MergingAgent",
                                !.resolved_at = Len(cs)]
             ELSE cs[i]]

\* lines 255-273 and 58-90: execute of a "resolve_conflict" action, the only
\* caller of resolve_conflicts, with a conflict type of types, while fewer
\* than n conflicts are recorded
ResolveConflictUpTo(n, types) ==
    /\ Len(conflicts) < n
    /\ \E conflict_type \in types, resolution \in {None, "keep_latest"} :
          conflicts' = Resolved(Append(conflicts, Conflict(conflict_type, "A", "B")),
                                conflict_type, resolution)
    /\ UNCHANGED <<outcomes, collected, agent_results, merged_results, merge_outcome>>
    /\ UNCHANGED notMerge

\* the resolve_conflict actions of a run that is about merging: of one type
ResolveConflict == ResolveConflictUpTo(MaxConflicts, {"value_mismatch"})

\* lines 92-121: merge_results
MergeResults ==
    /\ merged_results' = MergedResults(agent_results, conflicts)
    /\ merge_outcome' = IF Merged(agent_results).raised THEN "raised" ELSE "returned"
    /\ UNCHANGED <<outcomes, collected, agent_results, conflicts>>
    /\ UNCHANGED notMerge

MergeNext == CollectAgentResults \/ ResolveConflict \/ MergeResults

(***************************************************************************)
(* The brain service: /start, /stop and the run threads.                   *)
(*                                                                         *)
(* The handlers have no await: each runs to its end on the event loop of   *)
(* the server. A run thread executes run_brain_loop beside them and reads  *)
(* brain_running through check_running at the head of every iteration of   *)
(* orchestrate.                                                            *)
(***************************************************************************)
\* /start is accepted at most MaxRuns times
MaxRuns == 2

\* max_iterations of orchestrate (100, line 104), scaled down
MaxIterationsBound == 2

RunIds == 1..MaxRuns

\* current_thread and current_session_id before the first /start
NoRun == 0

\* a thread that has not been created
NoThread == [state |-> "none", iteration |-> 0, ended |-> "none"]

NoResponse == [endpoint |-> "none", status |-> "none", message |-> "none"]

Response(endpoint, status, message) ==
    [endpoint |-> endpoint, status |-> status, message |-> message]

\* main.py lines 32-34: the module globals
BrainInit ==
    /\ brain_running = FALSE
    /\ current_thread = NoRun
    /\ current_session_id = NoRun
    /\ thread = [r \in RunIds |-> NoThread]
    /\ response = NoResponse

\* the runs whose thread is executing run_brain_loop
Executing == {r \in RunIds : thread[r].state = "executing"}

\* the number of threads /start has launched
Launched == Cardinality({r \in RunIds : thread[r].state # "none"})

\* main.py lines 96-122: /start. db.create_session returns an id or None
StartTest ==
    IF brain_running
    THEN /\ response' = Response("start", "error", "Test already running")
         /\ UNCHANGED <<brain_running, current_thread, current_session_id, thread>>
         /\ UNCHANGED <<schedVars, mgrVars, mergeVars, orchVars>>
    ELSE /\ Launched < MaxRuns
         /\ \E created_session \in BOOLEAN :
               IF ~created_session
               THEN /\ current_session_id' = NoRun
                    /\ response' = Response("start", "error", "Failed to create session")
                    /\ UNCHANGED <<brain_running, current_thread, thread>>
               ELSE /\ current_session_id' = Launched + 1
                    /\ brain_running' = TRUE
                    /\ current_thread' = Launched + 1
                    /\ thread' = [thread EXCEPT ![Launched + 1].state = "executing"]
                    /\ response' = Response("start", "success", "Enhanced QA test started")
         /\ UNCHANGED <<schedVars, mgrVars, mergeVars, orchVars>>

\* main.py lines 125-137: /stop
StopTest ==
    /\ IF ~brain_running
       THEN /\ response' = Response("stop", "error", "No test running")
            /\ UNCHANGED brain_running
       ELSE /\ brain_running' = FALSE
            /\ response' = Response("stop", "success", "Test stopped")
    /\ UNCHANGED <<current_thread, current_session_id, thread>>
    /\ UNCHANGED <<schedVars, mgrVars, mergeVars, orchVars>>

\* the thread of run r returns from run_brain_loop
Returns(r, how) == [thread EXCEPT ![r].state = "returned", ![r].ended = how]

\* enhanced_orchestrator.py lines 111-160, loop.py lines 110-120: the head
\* of the loop of orchestrate and the iteration that follows it. The loop
\* ends when check_running() is false or at the cap; the iteration ends
\* the run when _is_complete holds, and goes on otherwise
Iterate(r) ==
    /\ thread[r].state = "executing"
    /\ IF ~brain_running
       THEN thread' = Returns(r, "stopped")
       ELSE IF thread[r].iteration >= MaxIterationsBound
       THEN thread' = Returns(r, "cap")
       ELSE \E is_complete \in BOOLEAN :
               thread' = IF is_complete
                         THEN [Returns(r, "complete") EXCEPT ![r].iteration = @ + 1]
                         ELSE [thread EXCEPT ![r].iteration = @ + 1]
    /\ UNCHANGED <<brain_running, current_thread, current_session_id, response>>
    /\ UNCHANGED <<schedVars, mgrVars, mergeVars, orchVars>>

\* loop.py lines 103-107: an exception ends run_brain_loop_async
RunError(r) ==
    /\ thread[r].state = "executing"
    /\ thread' = Returns(r, "error")
    /\ UNCHANGED <<brain_running, current_thread, current_session_id, response>>
    /\ UNCHANGED <<schedVars, mgrVars, mergeVars, orchVars>>

BrainNext ==
    \/ StartTest
    \/ StopTest
    \/ \E r \in RunIds : Iterate(r)
    \/ \E r \in RunIds : RunError(r)

(***************************************************************************)
(* One iteration of orchestrate: the decision has been taken (self.think   *)
(* has returned); the tasks are executed on one of the two paths, and the  *)
(* merge points are handled.                                               *)
(***************************************************************************)
\* context.get("tasks", []) at line 242: the context orchestrate builds
\* (lines 91-102) has no "tasks" key and nothing adds one to it
ContextTasks == <<>>

\* lines 239-246: the tasks of a group that are found in the context, for
\* which a coroutine is made
GroupTasks(group) ==
    SelectSeq(group,
              LAMBDA id : \E i \in DOMAIN ContextTasks : ContextTasks[i].task_id = id)

\* decision.get("parallel_groups", []): none, or one group of all tasks
ParallelGroups == {<<>>, <<<<"A", "B", "C">>>>}

\* decision.get("merge_points", []): none, or one
MergePoints == {<<>>, <<"merge_point_1">>}

\* lines 117-119: the decision of the iteration
OrchInit ==
    /\ dependencies \in Graphs
    /\ max_parallel \in 1..MaxParallelBound
    /\ parallel_groups \in ParallelGroups
    /\ merge_points \in MergePoints
    /\ executed = {}
    /\ pending = {}
    /\ batch = <<>>
    /\ results = <<>>
    /\ completed_tests = <<>>
    /\ failed_tests = <<>>
    /\ spc = "decided"
    /\ rounds = <<>>

\* lines 128-129 and 228-260: _execute_parallel_groups. No task of a group
\* is found in the context, so each gather is one of no coroutine, which is
\* done at once, and zip(group, results) is empty: the call returns without
\* having suspended, and has run and recorded nothing
ExecuteParallelGroups ==
    /\ spc = "decided"
    /\ parallel_groups # <<>>
    /\ \A g \in DOMAIN parallel_groups : GroupTasks(parallel_groups[g]) = <<>>
    /\ spc' = "returned"
    /\ UNCHANGED <<dependencies, max_parallel, executed, pending, batch, results,
                   completed_tests, failed_tests, rounds>>
    /\ UNCHANGED notSched

\* lines 131-132 and 173-189: _execute_tasks_with_parallel is entered
StartTasks ==
    /\ spc = "decided"
    /\ parallel_groups = <<>>
    /\ TaskMapKeys # {}
    /\ executed' = {}
    /\ pending' = TaskMapKeys
    /\ spc' = "loop"
    /\ UNCHANGED <<dependencies, max_parallel, batch, results, completed_tests,
                   failed_tests, rounds>>
    /\ UNCHANGED notSched

\* lines 128-132: neither parallel groups nor tasks
NothingToExecute ==
    /\ spc = "decided"
    /\ parallel_groups = <<>>
    /\ TaskMapKeys = {}
    /\ spc' = "returned"
    /\ UNCHANGED <<dependencies, max_parallel, executed, pending, batch, results,
                   completed_tests, failed_tests, rounds>>
    /\ UNCHANGED notSched

\* lines 325-329: the dict collected for a test of context["completed_tests"]
TestPayload(test) ==
    [k \in AllKeys |->
        CASE k = "task_id" -> Scalar(test.task_id)
          [] k = "result"  -> Scalar(test.result)
          [] k = "success" -> Scalar(IF test.success THEN "True" ELSE "False")
          [] OTHER         -> Absent]

RECURSIVE CollectTests(_, _, _)
\* lines 323-336: collect_agent_results for every completed test, from the
\* i-th on, under the test's agent
CollectTests(ar, tests, i) ==
    IF i > Len(tests) THEN ar
    ELSE CollectTests(CollectAgentResultsInto(ar, tests[i].agent, TestPayload(tests[i])),
                      tests, i + 1)

\* lines 135-136 and 311-348: _handle_merge_points, with the MergingAgent
\* among the agents (loop.py, line 70): every completed test is collected,
\* then merged, for each merge point
HandleMergePoints ==
    /\ spc = "returned"
    /\ merge_points # <<>>
    /\ agent_results' = CollectTests(agent_results, completed_tests, 1)
    /\ merged_results' = MergedResults(agent_results', conflicts)
    /\ merge_outcome' = IF Merged(agent_results').raised THEN "raised" ELSE "returned"
    /\ spc' = "iteration_end"
    /\ UNCHANGED <<dependencies, max_parallel, executed, pending, batch, results,
                   completed_tests, failed_tests, rounds>>
    /\ UNCHANGED <<outcomes, collected, conflicts>>
    /\ UNCHANGED <<mgrVars, orchVars, brainVars>>

\* lines 135-138: no merge point
NoMergePoints ==
    /\ spc = "returned"
    /\ merge_points = <<>>
    /\ spc' = "iteration_end"
    /\ UNCHANGED <<dependencies, max_parallel, executed, pending, batch, results,
                   completed_tests, failed_tests, rounds>>
    /\ UNCHANGED notSched

OrchNext ==
    \/ ExecuteParallelGroups
    \/ StartTasks
    \/ NothingToExecute
    \/ Dispatch
    \/ AgentTaskReturns
    \/ ProcessResults
    \/ Stall
    \/ Drained
    \/ HandleMergePoints
    \/ NoMergePoints

(***************************************************************************)
(* The specifications. Each runs one component and leaves the variables    *)
(* of the other at their values after construction.                        *)
(***************************************************************************)
vars == <<schedVars, mgrVars, mergeVars, orchVars, brainVars>>

\* no scheduling call is in progress
SchedIdle ==
    /\ dependencies = <<>>
    /\ max_parallel = 1
    /\ executed = {}
    /\ pending = {}
    /\ batch = <<>>
    /\ results = <<>>
    /\ completed_tests = <<>>
    /\ failed_tests = <<>>
    /\ spc = "returned"
    /\ rounds = <<>>

\* the TaskManager as constructed, with the default max_concurrent_tasks
\* replaced by the smallest one
MgrIdle == MgrInit /\ max_concurrent_tasks = 1

\* no decision has been taken
OrchIdle ==
    /\ parallel_groups = <<>>
    /\ merge_points = <<>>

SchedSpecInit == SchedInit /\ MgrIdle /\ MergeIdle /\ OrchIdle /\ BrainInit

MgrSpecInit == MgrInit /\ SchedIdle /\ MergeIdle /\ OrchIdle /\ BrainInit

MergeSpecInit == MergeInit /\ SchedIdle /\ MgrIdle /\ OrchIdle /\ BrainInit

OrchSpecInit == OrchInit /\ MgrIdle /\ MergeIdle /\ BrainInit

SchedSpec == SchedSpecInit /\ [][SchedNext]_vars

\* the event loop runs every runnable coroutine, and every agent call is
\* assumed to return
SchedFairSpec == SchedSpec /\ WF_vars(SchedNext)

\* a TaskManager whose whole life is shorter than a tick of the clock
MgrSpec == MgrSpecInit /\ [][MgrNext]_vars

\* a MergingAgent that collects the outcomes in any order, and merges at any time
MergeSpec == MergeSpecInit /\ [][MergeNext]_vars

\* one iteration of orchestrate after its decision
OrchSpec == OrchSpecInit /\ [][OrchNext]_vars

\* a TaskManager that lives through MaxTicks ticks of the clock
MgrClockSpec == MgrSpecInit /\ [][MgrClockNext]_vars

(***************************************************************************)
(* Properties of the TaskManager.                                          *)
(***************************************************************************)
\* C3: running_tasks never exceeds max_concurrent_tasks, under every
\* interleaving of create_task, admission, completion, failure, timeout,
\* cancel_task and shutdown.
C3_RunningWithinCeiling == running_tasks <= max_concurrent_tasks

\* the ceiling is reached and a further task was rejected for it
C3_Witness ==
    /\ running_tasks = max_concurrent_tasks
    /\ \E t \in MgrIds :
          rec[t].status = FAILED /\ rec[t].error = "Max concurrent tasks reached"

\* C4 (as claimed): once the status of a record is Completed, Failed,
\* Cancelled or TimedOut it never changes again, and the result of a unit
\* of work that ends after its record was cancelled is not applied.
C4_TerminalStatusIsFinal ==
    [][\A t \in MgrIds :
          rec[t].status \in TerminalStatuses =>
              /\ rec'[t].status = rec[t].status
              /\ rec'[t].result = rec[t].result]_vars

\* C5 (as claimed): the cleanup handlers of a task are never run twice, and
\* have run exactly once when the task is terminal and its execution is over.
C5_CleanupExactlyOnce ==
    \A t \in MgrIds :
        /\ cleanup_runs[t] <= 1
        /\ (tpc[t] = "done" /\ rec[t].status \in TerminalStatuses)
              => cleanup_runs[t] = 1

\* the last step was a cancel_task call on id t
CancelCalledOn(t) == cancel_result'.called /\ cancel_result'.task_id = t

\* C9: cancel_task on a record that is Completed or Failed, or on an id the
\* registry does not know, returns false and changes no record, nor the
\* registry, nor running_tasks.
C9_CancelFinishedIsNoOp ==
    [][\A t \in MgrIds :
          (CancelCalledOn(t) /\ (t \notin tasks \/ rec[t].status \in {COMPLETED, FAILED}))
          => /\ cancel_result'.ret = FALSE
             /\ rec' = rec
             /\ tasks' = tasks
             /\ running_tasks' = running_tasks]_vars

\* cancel_task has just refused to cancel a registered Completed record
C9_Witness ==
    /\ cancel_result.called
    /\ cancel_result.ret = FALSE
    /\ cancel_result.task_id \in tasks
    /\ rec[cancel_result.task_id].status = COMPLETED
    /\ rec[cancel_result.task_id].result = "result"

C11_TimeoutEndsTimedOut ==
    \A t \in MgrIds :
        hist[t].coro = "TimeoutError" =>
            /\ rec[t].timeout
            /\ rec[t].status = TIMEOUT
            /\ rec[t].error = "Task timeout"
            /\ rec[t].result = None
            /\ rec[t].completed_at # NoTime
            /\ cleanup_runs[t] >= 1

\* a task has timed out while another task was created, and the manager was
\* shut down afterwards
C11_Witness ==
    \E t \in MgrIds :
        /\ hist[t].coro = "TimeoutError"
        /\ rec[t].status = TIMEOUT
        /\ created = MaxTasks
        /\ shutdown_requested

\* _execute_task has rejected task t at capacity (lines 120-126)
Rejected(t) ==
    /\ rec[t].status = FAILED
    /\ rec[t].error = "Max concurrent tasks reached"

\* C12 as stated: a unit of work submitted (create_task) while running_tasks
\* is at or above max_concurrent_tasks is rejected: it is never invoked and
\* never run later when a slot frees up.
C12_SubmittedAtCapacityRejected ==
    \A t \in MgrIds :
        hist[t].at_capacity =>
            /\ tpc[t] \in {"start", "done"}
            /\ hist[t].coro = "none"
            /\ rec[t].status \in {PENDING, FAILED}

\* C12, amended: a unit of work whose admission step (the first step of
\* _execute_task) finds running_tasks at or above max_concurrent_tasks is
\* rejected with the capacity error in that step; the rejection leaves
\* running_tasks unchanged, and the unit of work is never invoked, then or
\* later.
C12_RejectedAtAdmission ==
    [][\A t \in MgrIds :
          /\ (/\ tpc[t] = "start"
              /\ tpc'[t] # "start"
              /\ running_tasks >= max_concurrent_tasks)
             => /\ Rejected(t)'
                /\ tpc'[t] = "done"
                /\ running_tasks' = running_tasks
                /\ hist'[t].coro = "none"
          /\ Rejected(t)
             => /\ Rejected(t)'
                /\ tpc'[t] = "done"
                /\ hist'[t].coro = "none"]_vars

\* a task was rejected, and afterwards the slot it did not get was freed
C12_Witness ==
    \E t, u \in MgrIds :
        /\ Rejected(t)
        /\ tpc[t] = "done"
        /\ hist[t].coro = "none"
        /\ hist[u].coro = "returns"
        /\ running_tasks = 0

\* a step in which a shutdown() call returns
ShutdownReturns ==
    \/ ShutdownResume
    \/ ShutdownCall /\ shutdown_pc' = "idle"

\* the TaskManager as a shutdown() that has returned leaves it
ShutDown ==
    /\ tasks = {}
    /\ \A t \in tasks : rec[t].status # RUNNING
    /\ shutdown_requested
    /\ shutdown_pc = "idle"

MergeStep == merged_results' # merged_results \/ merge_outcome' # merge_outcome

\* the two outcomes come from different agents and share no key
DisjointOutcomes ==
    /\ outcomes[1].agent # outcomes[2].agent
    /\ KeysOf(outcomes[1].results) \cap KeysOf(outcomes[2].results) = {}

\* the union of the two payloads
UnionOfPayloads ==
    [k \in AllKeys |-> IF k \in KeysOf(outcomes[1].results)
                       THEN outcomes[1].results[k]
                       ELSE outcomes[2].results[k]]

\* C14: when the outcomes of two different agents whose payloads share no
\* key have both been collected, in either order, merge_results returns the
\* union of the payloads as merged_data and records no conflict.
C14_DisjointMergeIsUnion ==
    [][(MergeStep /\ collected = OutcomeIds /\ DisjointOutcomes)
          => /\ merge_outcome' = "returned"
             /\ merged_results'.merged_data = UnionOfPayloads
             /\ conflicts' = conflicts
             /\ merged_results'.total_conflicts = Len(conflicts)]_vars

\* B's outcome was collected before A's, the payloads share no key and hold
\* a scalar and a list, and the merge has returned their union
C14_Witness ==
    /\ collected = OutcomeIds
    /\ DisjointOutcomes
    /\ agent_results[1].agent = "B"
    /\ outcomes[1].results["x"].shape = "scalar"
    /\ outcomes[2].results["y"].shape = "list"
    /\ merge_outcome = "returned"
    /\ merged_results.total_agents = 2
    /\ merged_results.merged_data = UnionOfPayloads
    /\ merged_results.total_conflicts = 0

\* the two outcomes come from different agents and give different scalars
\* for key k, the only key they share
ScalarClash(k) ==
    /\ outcomes[1].agent # outcomes[2].agent
    /\ KeysOf(outcomes[1].results) \cap KeysOf(outcomes[2].results) = {k}
    /\ outcomes[1].results[k].shape = "scalar"
    /\ outcomes[2].results[k].shape = "scalar"
    /\ outcomes[1].results[k] # outcomes[2].results[k]

\* C15: when the outcomes of two different agents that give different
\* scalars for one key have both been collected, merge_results returns the
\* value of the outcome collected last for that key, and records exactly one
\* conflict, which names both agents.
C15_ScalarClashRecordsConflict ==
    [][\A k \in Keys :
          (MergeStep /\ collected = OutcomeIds /\ ScalarClash(k))
             => /\ merge_outcome' = "returned"
                /\ merged_results'.merged_data[k] = agent_results[2].results[k]
                /\ Len(conflicts') = Len(conflicts) + 1
                /\ Range(conflicts'[Len(conflicts')].agents) = Agents
                /\ merged_results'.total_conflicts = Len(conflicts')]_vars

\* C16: merge_results returns whatever has been collected, also when two
\* agents give values of different shapes for a key: it never raises.
C16_MergeNeverRaises == merge_outcome # "raised"

(***************************************************************************)
(* Properties of the scheduling call and of an iteration of orchestrate.   *)
(***************************************************************************)
\* the tasks whose coroutine is running
InFlight == {t \in DOMAIN results : results[t] = "inflight"}

\* C18: the scheduling call leaves the gather, changes executed or pending
\* (from which the next ready set is computed) and dispatches a batch only
\* when no task is in flight, and a batch is dispatched only when every task
\* of every earlier batch has been processed - whatever order the tasks of
\* a batch finish in.
C18_BatchBarrier ==
    [][/\ (\/ executed' # executed
           \/ pending' # pending
           \/ rounds' # rounds
           \/ spc = "gather" /\ spc' # "gather")
          => InFlight = {}
       /\ rounds' # rounds
          => \A i \in DOMAIN rounds : Range(rounds[i]) \subseteq executed]_vars

\* in a batch of two the second task has finished and the first has not,
\* while a task that depends on the finished one alone is pending
C18_Witness ==
    /\ spc = "gather"
    /\ Len(batch) = 2
    /\ results[batch[1]] = "inflight"
    /\ results[batch[2]] = "success"
    /\ \E t \in pending \ Range(batch) : dependencies[t] = {batch[2]}

\* C20: every entry of context["completed_tests"] is the outcome of a task
\* that succeeded - a task whose agent raised, or whose agent is unknown, is
\* in context["failed_tests"] only - and no task is in both lists.
C20_OutcomesRoutedByResult ==
    /\ \A i \in DOMAIN completed_tests : completed_tests[i].success
    /\ ReportedCompleted \cap ReportedFailed = {}

\* C17: _handle_merge_points runs only when no task of the plan is pending
\* or in flight.
C17_MergeAfterCohortTerminal ==
    [][(spc = "returned" /\ spc' = "iteration_end" /\ merge_points # <<>>)
          => pending = {} /\ InFlight = {}]_vars

\* C19: at no point are more than max_parallel agent tasks in flight, on the
\* path of the dependency-scheduled batches and on the path of the parallel
\* groups.
C19_InFlightWithinMaxParallel == Cardinality(InFlight) <= max_parallel

\* more tasks are ready than max_parallel allows, and max_parallel of them
\* are in flight
C19_Witness ==
    /\ spc = "gather"
    /\ max_parallel = MaxParallelBound
    /\ Cardinality(ReadyTasks(pending, executed)) > max_parallel
    /\ Cardinality(InFlight) = max_parallel

\* the place of the tasks in the `tasks` list of the decision, which is the
\* insertion order of task_map (line 173)
TaskOrder == <<"A", "B", "C">>

\* task.get("priority") of the tasks
TaskPriority == [t \in TaskIds |-> IF t = "A" THEN 2 ELSE 1]

Rank(t) == CHOOSE i \in DOMAIN TaskOrder : TaskOrder[i] = t

\* ascending priority, then insertion order
SortKey(t) == TaskPriority[t] * (Len(TaskOrder) + 1) + Rank(t)

\* the first BatchSize(ready) of the ready tasks in that order
PriorityBatch(ready) ==
    CHOOSE s \in [1..BatchSize(ready) -> ready] :
        /\ \A i, j \in DOMAIN s : i < j => SortKey(s[i]) < SortKey(s[j])
        /\ \A u \in ready \ Range(s) : \A i \in DOMAIN s : SortKey(s[i]) < SortKey(u)

\* C21: the batch handed to gather is made of the ready tasks that come
\* first in ascending priority, ties broken by insertion order, in that
\* order - so the batches of a run are a function of the graph and of the
\* outcomes.
C21_BatchByPriorityThenInsertion ==
    spc = "gather" => batch = PriorityBatch(ReadyTasks(pending, executed))

(***************************************************************************)
(* Properties of the monitor of the TaskManager.                           *)
(***************************************************************************)
\* task t has been in a terminal status for longer than the retention window
TerminalForLong(t) ==
    /\ rec[t].status \in TerminalStatuses
    /\ hist[t].terminal_at # NoTime
    /\ hist[t].terminal_at < now - StaleSeconds

\* C22: a pass of the monitor loop removes from the registry every record
\* that has been COMPLETED, FAILED (capacity-rejected too), CANCELLED or
\* TIMEOUT for longer than the retention window, and removes no PENDING or
\* RUNNING record.
C22_MonitorReapsTerminal ==
    [][last_pass'.ran
          => \A t \in tasks :
                /\ TerminalForLong(t) => t \notin tasks'
                /\ rec[t].status \in {PENDING, RUNNING} => t \in tasks']_vars

\* C23: a record carries a result only if its status is COMPLETED, under
\* every interleaving of cancel_task and shutdown with the end of the unit
\* of work.
C23_ResultOnlyIfCompleted ==
    \A t \in MgrIds : rec[t].result # None => rec[t].status = COMPLETED

\* a task was cancelled while RUNNING, then its unit of work returned
C23_Witness ==
    \E t \in MgrIds :
        /\ rec[t].error = "Task cancelled by user"
        /\ hist[t].coro = "returns"
        /\ rec[t].result = "result"
        /\ rec[t].status = COMPLETED

\* the executions that were admitted and have not reached their finally block
AdmittedExecutions == {t \in MgrIds : tpc[t] = "awaiting_coro"}

\* C25: running_tasks counts exactly the admitted executions in progress:
\* it is never negative, a capacity-rejected task does not change it, and it
\* is 0 whenever no admitted execution is in progress.
C25_RunningTasksCountsAdmitted ==
    /\ running_tasks >= 0
    /\ running_tasks = Cardinality(AdmittedExecutions)

\* every outcome of the unit of work has happened, one task was cancelled
\* while running or rejected at capacity, and all slots are free again
C25_Witness ==
    /\ created = MaxTasks
    /\ AdmittedExecutions = {}
    /\ \E t \in MgrIds : hist[t].coro \in {"TimeoutError", "raises"}
    /\ \E t \in MgrIds : Rejected(t) \/ rec[t].error = "Task cancelled by user"
    /\ running_tasks = 0

\* the TaskManager with a monitor task that gets its turn: the event loop
\* resumes _monitor_loop when its sleep ends or when it has been cancelled
MgrFairSpec == MgrSpecInit /\ [][MgrNext]_vars /\ WF_vars(MonitorLoop)

\* stop_monitoring has completed earlier and a monitor task started by a
\* later start_monitoring is alive
MonitorRestarted ==
    /\ shutdown_requested
    /\ shutdown_pc # "awaiting_monitor"
    /\ monitor_task = "running"

\* C27: a monitor loop started after shutdown() or stop_monitoring() has
\* completed performs a refresh-and-reap pass, unless it is stopped again
\* first.
C27_RestartedMonitorPasses ==
    MonitorRestarted ~> (last_pass.ran \/ shutdown_pc = "awaiting_monitor")

\* resolve_conflict actions in a run that is about the conflicts
MaxResolveCalls == 2

\* the payloads that hold one scalar under the key "x"
ScalarPayloads == {[EmptyDict EXCEPT !["x"] = Scalar(v)] : v \in ScalarValues}

\* lines 19-24: the agent as constructed, with outcomes of scalar payloads
ConflictSpecInit ==
    /\ outcomes \in {o \in [OutcomeIds -> [agent : Agents, results : ScalarPayloads]] :
                        o[1].agent = "A"}
    /\ collected = {}
    /\ agent_results = <<>>
    /\ conflicts = <<>>
    /\ merged_results = NoMergedResults
    /\ merge_outcome = "none"
    /\ SchedIdle /\ MgrIdle /\ OrchIdle /\ BrainInit

ConflictNext ==
    \/ CollectAgentResults
    \/ ResolveConflictUpTo(MaxResolveCalls, ConflictTypes)
    \/ MergeResults

\* the MergingAgent over up to MaxResolveCalls resolve_conflict actions
ConflictSpec == ConflictSpecInit /\ [][ConflictNext]_vars

\* the resolution fields of a conflict
ResolutionFields(c) == <<c.resolution, c.resolved_by, c.resolved_at>>

\* C24: no step changes the resolution fields of a conflict recorded before
\* it: a resolve call tags at most the conflict it records, with its own
\* timestamp, and merge_results tags none.
C24_ResolutionTagsOneConflict ==
    [][/\ \A i \in DOMAIN conflicts :
             /\ i \in DOMAIN conflicts'
             /\ ResolutionFields(conflicts'[i]) = ResolutionFields(conflicts[i])
       /\ \A i \in DOMAIN conflicts' \ DOMAIN conflicts :
             \/ ResolutionFields(conflicts'[i]) = <<None, None, NotResolvedAt>>
             \/ /\ conflicts'[i].resolution # None
                /\ conflicts'[i].resolved_at = i]_vars

\* the coordinator holds the payload collected for a completed test
HeldByCoordinator(test) ==
    \E j \in DOMAIN agent_results :
        /\ agent_results[j].agent = test.agent
        /\ agent_results[j].results = TestPayload(test)

\* C26: when merge_results has run at a merge point, the coordinator holds
\* the outcome of every entry of the context's completed list.
C26_CompletedOutcomesHeldAtMerge ==
    merge_outcome # "none"
        => \A i \in DOMAIN completed_tests : HeldByCoordinator(completed_tests[i])

BrainSpecInit == BrainInit /\ SchedIdle /\ MgrIdle /\ MergeIdle /\ OrchIdle

\* the brain service over up to MaxRuns accepted /start requests
BrainSpec == BrainSpecInit /\ [][BrainNext]_vars

\* C28: at most one brain loop thread is executing at any time.
C28_AtMostOneBrainThread == Cardinality(Executing) <= 1

\* a run has returned on its own and /stop has not been called since it
\* was started
FinishedOnItsOwn ==
    /\ brain_running
    /\ Executing = {}
    /\ \E r \in RunIds : thread[r].ended \in {"complete", "cap", "error"}

\* C29: a /start that arrives after the run has finished on its own is not
\* rejected with "Test already running".
C29_StartAfterFinishedRunAccepted ==
    [][(FinishedOnItsOwn /\ response'.endpoint = "start")
          => response'.message # "Test already running"]_vars

====
